---- MODULE Spec2Model ----
(***************************************************************************)
(* Ertis: the generic resource controller (src/generics/api.py) and the    *)
(* token endpoints (src/custom_api/tokens.py).                             *)
(*                                                                         *)
(* A request is handled by one action, which runs the whole handler: the   *)
(* auth gate, the input handling, the delegate call and the response.  The *)
(* variables request, calls and response hold the request that was handled *)
(* last, the external calls the handler made while handling it (in order)  *)
(* and how the handler ended.                                              *)
(*                                                                         *)
(* A header or a credential is a string, modelled as a sequence of atoms:  *)
(* a space, a tab, a word without whitespace, or a bearer token.  A token  *)
(* is the record of its claims and of the key that signed it.              *)
(*                                                                         *)
(* held is the set of tokens that a client was issued and kept (SpecTokens *)
(* presents them again).  inflight holds the requests that are in the      *)
(* server at once, each with its handler's position and local variables    *)
(* (SpecConcurrent runs their handlers in steps, interleaved).             *)
(***************************************************************************)
EXTENDS Integers, Sequences, FiniteSets, TLC

VARIABLES self, settings, routes, generated, now, request, calls, response, held,
          inflight

vars == <<self, settings, routes, generated, now, request, calls, response, held,
          inflight>>

-----------------------------------------------------------------------------
(* Bounds *)

MaxHeaderLen == 3
MaxTime == 2
MaxRequests == 2

-----------------------------------------------------------------------------
(* Strings *)

SP == [ch |-> " "]
TAB == [ch |-> "\t"]
Bearer == [ch |-> "Bearer"]

\* A string of one word.
Str(word) == <<[ch |-> word]>>

Secret == "application_secret"
StoredUsers == {"u1", "u2"}

\* A token signed with the application secret, expired from time 1 on, and one
\* signed with another key, expired at the last time.
SignedToken == [sub |-> "u1", iat |-> 0, exp |-> 0, key |-> Secret]
ForgedToken == [sub |-> "u2", iat |-> 0, exp |-> MaxTime - 1, key |-> "other_secret"]
TokenPool == {SignedToken, ForgedToken}

IsTokenAtom(a) == DOMAIN a = {"sub", "iat", "exp", "key"}

Atoms == {SP, TAB, Bearer} \cup TokenPool

RECURSIVE StringsUpTo(_)
StringsUpTo(n) ==
    IF n = 0 THEN {<<>>}
    ELSE LET shorter == StringsUpTo(n - 1)
         IN  shorter \cup {Append(s, a) : s \in {t \in shorter : Len(t) = n - 1}, a \in Atoms}

\* request.headers.get('Authorization'): None when the header is absent.
NoHeader == [present |-> FALSE, value |-> <<>>]
Headers == {NoHeader} \cup {[present |-> TRUE, value |-> s] : s \in StringsUpTo(MaxHeaderLen)}

\* str.split(' '): cuts at every single space; empty pieces are kept.
RECURSIVE Split(_)
Split(s) ==
    IF \A i \in 1..Len(s) : s[i] # SP THEN <<s>>
    ELSE LET i == CHOOSE k \in 1..Len(s) : s[k] = SP /\ \A j \in 1..(k - 1) : s[j] # SP
         IN  <<SubSeq(s, 1, i - 1)>> \o Split(SubSeq(s, i + 1, Len(s)))

-----------------------------------------------------------------------------
(* How a handler ends *)

NoResponse == [kind |-> "none"]

\* flask.Response(body, mimetype=..., status=...)
Response(body, mimetype, status) ==
    [kind |-> "Response", body |-> body, mimetype |-> mimetype, status |-> status]

\* raise ErtisError(err_code=..., status_code=..., context=...)
ErtisError(err_code, status_code, context) ==
    [kind |-> "ErtisError", err_code |-> err_code, status_code |-> status_code,
     context |-> context]

\* An exception that is no ErtisError and that the handler does not catch.
Uncaught(type) == [kind |-> "Uncaught", type |-> type]

NoContext == [none |-> TRUE]

-----------------------------------------------------------------------------
(* Security Manager *)

\* The credential is a token when it is one token atom and nothing else.
IsToken(credential) == Len(credential) = 1 /\ IsTokenAtom(credential[1])

AuthenticationError(reason) ==
    ErtisError("errors.authenticationError", 401, [reason |-> reason])

\* ErtisSecurityManager(db).load_user(token, secret, verify) at time t
LoadUser(token, secret, verify, t) ==
    IF ~IsToken(token)
    THEN [ok |-> FALSE, user |-> "None", error |-> AuthenticationError("Malformed")]
    ELSE LET claims == token[1]
         IN  IF verify /\ claims.key # secret
             THEN [ok |-> FALSE, user |-> "None",
                   error |-> AuthenticationError("InvalidSignature")]
             ELSE IF t > claims.exp
             THEN [ok |-> FALSE, user |-> "None", error |-> AuthenticationError("Expired")]
             ELSE IF claims.sub \notin StoredUsers
             THEN [ok |-> FALSE, user |-> "None",
                   error |-> AuthenticationError("UserNotFound")]
             ELSE [ok |-> TRUE, user |-> claims.sub, error |-> NoResponse]

-----------------------------------------------------------------------------
(* The auth gate *)

LoadUserCall(token, secret, verify) ==
    [call |-> "load_user", token |-> token, secret |-> secret, verify |-> verify]

\* ensure_token_provided with `req.headers.get('Authorization', '')` and no
\* check that a header came: an absent header is split like an empty one.
ensure_token_provided_unchecked(auth_header, secret, verify, t) ==
    LET parts == Split(auth_header.value)
    IN  IF Len(parts) # 2
        THEN [raised |-> TRUE, user |-> "None", calls |-> <<>>,
              error |-> ErtisError("errors.invalidBearerTokenUsage", 401, NoContext)]
        ELSE LET token == parts[2]
                 loaded == LoadUser(token, secret, verify, t)
             IN  [raised |-> ~loaded.ok, user |-> loaded.user,
                  calls |-> <<LoadUserCall(token, secret, verify)>>,
                  error |-> loaded.error]

\* ensure_token_provided that takes a token only after the word Bearer.
ensure_token_provided_bearer_only(auth_header, secret, verify, t) ==
    IF ~auth_header.present \/ auth_header.value = <<>>
    THEN [raised |-> TRUE, user |-> "None", calls |-> <<>>,
          error |-> ErtisError("errors.authorizationHeaderRequired", 401, NoContext)]
    ELSE LET parts == Split(auth_header.value)
         IN  IF Len(parts) # 2 \/ parts[1] # <<Bearer>>
             THEN [raised |-> TRUE, user |-> "None", calls |-> <<>>,
                   error |-> ErtisError("errors.invalidBearerTokenUsage", 401, NoContext)]
             ELSE LET token == parts[2]
                      loaded == LoadUser(token, secret, verify, t)
                  IN  [raised |-> ~loaded.ok, user |-> loaded.user,
                       calls |-> <<LoadUserCall(token, secret, verify)>>,
                       error |-> loaded.error]

\* ensure_token_provided whose except branch raises the error it builds, and
\* is entered by a header that does not split in two.
ensure_token_provided_raising_invalid(auth_header, secret, verify, t) ==
    IF ~auth_header.present \/ auth_header.value = <<>>
    THEN [raised |-> TRUE, user |-> "None", calls |-> <<>>,
          error |-> ErtisError("errors.authorizationHeaderRequired", 401, NoContext)]
    ELSE LET parts == Split(auth_header.value)
         IN  IF Len(parts) = 1
             THEN [raised |-> TRUE, user |-> "None", calls |-> <<>>,
                   error |-> ErtisError("errors.authorizationHeaderIsInvalid", 401,
                                        NoContext)]
             ELSE IF Len(parts) # 2
             THEN [raised |-> TRUE, user |-> "None", calls |-> <<>>,
                   error |-> ErtisError("errors.invalidBearerTokenUsage", 401, NoContext)]
             ELSE LET token == parts[2]
                      loaded == LoadUser(token, secret, verify, t)
                  IN  [raised |-> ~loaded.ok, user |-> loaded.user,
                       calls |-> <<LoadUserCall(token, secret, verify)>>,
                       error |-> loaded.error]

\* ensure_token_provided with load_user in a try whose except returns None.
ensure_token_provided_swallowing(auth_header, secret, verify, t) ==
    IF ~auth_header.present \/ auth_header.value = <<>>
    THEN [raised |-> TRUE, user |-> "None", calls |-> <<>>,
          error |-> ErtisError("errors.authorizationHeaderRequired", 401, NoContext)]
    ELSE LET parts == Split(auth_header.value)
         IN  IF Len(parts) # 2
             THEN [raised |-> TRUE, user |-> "None", calls |-> <<>>,
                   error |-> ErtisError("errors.invalidBearerTokenUsage", 401, NoContext)]
             ELSE LET token == parts[2]
                      loaded == LoadUser(token, secret, verify, t)
                  IN  [raised |-> FALSE, user |-> loaded.user,
                       calls |-> <<LoadUserCall(token, secret, verify)>>,
                       error |-> NoResponse]

\* ensure_token_provided(db, req, api_name, secret, verify) at time t.  The
\* except branch around split() builds an ErtisError and does not raise it,
\* and str.split does not raise: the branch has no effect.
ensure_token_provided(auth_header, secret, verify, t) ==
    IF ~auth_header.present \/ auth_header.value = <<>>
    THEN [raised |-> TRUE, user |-> "None", calls |-> <<>>,
          error |-> ErtisError("errors.authorizationHeaderRequired", 401, NoContext)]
    ELSE LET parts == Split(auth_header.value)
         IN  IF Len(parts) # 2
             THEN [raised |-> TRUE, user |-> "None", calls |-> <<>>,
                   error |-> ErtisError("errors.invalidBearerTokenUsage", 401, NoContext)]
             ELSE LET token == parts[2]
                      loaded == LoadUser(token, secret, verify, t)
                  IN  [raised |-> ~loaded.ok, user |-> loaded.user,
                       calls |-> <<LoadUserCall(token, secret, verify)>>,
                       error |-> loaded.error]

\* The handler's `if not self.allow_to_anonymous:` around the gate.
SkippedGate == [raised |-> FALSE, user |-> "None", calls |-> <<>>, error |-> NoResponse]

\* The gate with its condition inverted: `if self.allow_to_anonymous:`.
GateInverted(this, sett, auth_header, t) ==
    IF this.allow_to_anonymous
    THEN ensure_token_provided(auth_header, sett.application_secret, sett.verify_token, t)
    ELSE SkippedGate

Gate(this, sett, auth_header, t) ==
    IF ~this.allow_to_anonymous
    THEN ensure_token_provided(auth_header, sett.application_secret, sett.verify_token, t)
    ELSE SkippedGate

-----------------------------------------------------------------------------
(* GenericErtisApi *)

\* The mapping with CREATE answering 200.
STATUS_CODE_MAPPING_CREATE_200 ==
    [CREATE |-> 200, READ |-> 200, QUERY |-> 200, UPDATE |-> 200, DELETE |-> 204,
     DISTINCT |-> 200]

STATUS_CODE_MAPPING ==
    [CREATE |-> 201, READ |-> 200, QUERY |-> 200, UPDATE |-> 200, DELETE |-> 204,
     DISTINCT |-> 200]

\* flask.Response's mimetype when the handler names none.
DefaultMimetype == "text/html"

\* What the resource service answers to the delegate call: a serialized result,
\* or an error of its own.
ServiceOutcomes ==
    {[returns |-> TRUE, result |-> p, error |-> NoResponse] : p \in {"payload1", "payload2"}}
        \cup {[returns |-> FALSE, result |-> "None",
               error |-> ErtisError("errors.resourceError", 400, NoContext)]}

Datas == {"data1", "data2"}
ResourceIds == {"123"}

\* query_helpers.parse(request)
ParsedQuery ==
    [where |-> "where", select |-> "select", limit |-> "limit", sort |-> "sort",
     skip |-> "skip"]

\* generate_urls(): get_url, post_url, update_url, delete_url, query_url
generate_urls(this) ==
    [get_url |-> <<this.endpoint_prefix, "/<resource_id>">>,
     post_url |-> <<this.endpoint_prefix>>,
     update_url |-> <<this.endpoint_prefix, "/<resource_id>">>,
     delete_url |-> <<this.endpoint_prefix, "/<resource_id>">>,
     query_url |-> <<this.endpoint_prefix, "/_query">>]

\* @app.route(rule, methods=[method]) on the function renamed to endpoint
Route(rule, method, endpoint) == [rule |-> rule, method |-> method, endpoint |-> endpoint]

QueryRoute(this) == Route(generate_urls(this).query_url, "POST", <<this.resource_name, "_query">>)
ReadRoute(this) == Route(generate_urls(this).get_url, "GET", <<this.resource_name, "_read">>)
CreateRoute(this) == Route(generate_urls(this).post_url, "POST", <<this.resource_name, "_create">>)
UpdateRoute(this) == Route(generate_urls(this).update_url, "PUT", <<this.resource_name, "_update">>)
DeleteRoute(this) == Route(generate_urls(this).delete_url, "DELETE", <<this.resource_name, "_delete">>)

\* generate_endpoints() with the update route under the guard of the create route.
GeneratedRoutesWrongGuard(this) ==
    (IF "QUERY" \in this.methods THEN {QueryRoute(this)} ELSE {})
        \cup (IF "GET" \in this.methods THEN {ReadRoute(this)} ELSE {})
        \cup (IF "POST" \in this.methods THEN {CreateRoute(this)} ELSE {})
        \cup (IF "POST" \in this.methods THEN {UpdateRoute(this)} ELSE {})
        \cup (IF "DELETE" \in this.methods THEN {DeleteRoute(this)} ELSE {})

\* The routes generate_endpoints() registers: one per `if '...' in self.methods`.
GeneratedRoutes(this) ==
    (IF "QUERY" \in this.methods THEN {QueryRoute(this)} ELSE {})
        \cup (IF "GET" \in this.methods THEN {ReadRoute(this)} ELSE {})
        \cup (IF "POST" \in this.methods THEN {CreateRoute(this)} ELSE {})
        \cup (IF "PUT" \in this.methods THEN {UpdateRoute(this)} ELSE {})
        \cup (IF "DELETE" \in this.methods THEN {DeleteRoute(this)} ELSE {})

\* A handler's run: the external calls it made and how it ended.
Ended(made, how) == [calls |-> made, response |-> how]

\* query()
query(this, sett, auth_header, svc, t) ==
    LET gate == Gate(this, sett, auth_header, t)
        parsed == ParsedQuery
        made == gate.calls \o
                <<[call |-> "query_helpers.parse"],
                  [call |-> "service.filter", where |-> parsed.where,
                   select |-> parsed.select, limit |-> parsed.limit, skip |-> parsed.skip,
                   sort |-> parsed.sort, resource_name |-> this.resource_name]>>
    IN  IF gate.raised THEN Ended(gate.calls, gate.error)
        ELSE IF ~svc.returns THEN Ended(made, svc.error)
        ELSE Ended(made, Response(svc.result, "application/json",
                                  STATUS_CODE_MAPPING["QUERY"]))

\* read(resource_id)
read(this, sett, auth_header, resource_id, svc, t) ==
    LET gate == Gate(this, sett, auth_header, t)
        made == gate.calls \o
                <<[call |-> "service.get", id |-> resource_id,
                   resource_name |-> this.resource_name]>>
    IN  IF gate.raised THEN Ended(gate.calls, gate.error)
        ELSE IF ~svc.returns THEN Ended(made, svc.error)
        ELSE Ended(made, Response(svc.result, "application/json",
                                  STATUS_CODE_MAPPING["READ"]))

\* `user` bound to None whatever the gate returned.
LocalUserNone(this, gate) ==
    IF ~this.allow_to_anonymous THEN [bound |-> TRUE, value |-> "None"]
    ELSE [bound |-> FALSE, value |-> "None"]

\* The local variable `user` of create() and update(): assigned only inside
\* `if not self.allow_to_anonymous:`.
LocalUser(this, gate) ==
    IF ~this.allow_to_anonymous THEN [bound |-> TRUE, value |-> gate.user]
    ELSE [bound |-> FALSE, value |-> "None"]

\* create()
create(this, sett, auth_header, data, svc, t) ==
    LET gate == Gate(this, sett, auth_header, t)
        user == LocalUser(this, gate)
        made == gate.calls \o
                <<[call |-> "service.post", user |-> user.value, data |-> data,
                   resource_name |-> this.resource_name,
                   validate_by |-> this.create_validation_schema,
                   pipeline |-> this.pipeline_functions]>>
    IN  IF gate.raised THEN Ended(gate.calls, gate.error)
        ELSE IF ~user.bound THEN Ended(gate.calls, Uncaught("UnboundLocalError"))
        ELSE IF ~svc.returns THEN Ended(made, svc.error)
        ELSE Ended(made, Response(svc.result, "application/json",
                                  STATUS_CODE_MAPPING["CREATE"]))

\* update(resource_id)
update(this, sett, auth_header, resource_id, data, svc, t) ==
    LET gate == Gate(this, sett, auth_header, t)
        user == LocalUser(this, gate)
        made == gate.calls \o
                <<[call |-> "service.put", user |-> user.value, id |-> resource_id,
                   data |-> data, resource_name |-> this.resource_name,
                   validate_by |-> this.update_validation_schema,
                   pipeline |-> this.pipeline_functions]>>
    IN  IF gate.raised THEN Ended(gate.calls, gate.error)
        ELSE IF ~user.bound THEN Ended(gate.calls, Uncaught("UnboundLocalError"))
        ELSE IF ~svc.returns THEN Ended(made, svc.error)
        ELSE Ended(made, Response(svc.result, "application/json",
                                  STATUS_CODE_MAPPING["UPDATE"]))

\* delete(resource_id): the gate's user is dropped and no mimetype is given.
delete(this, sett, auth_header, resource_id, svc, t) ==
    LET gate == Gate(this, sett, auth_header, t)
        made == gate.calls \o
                <<[call |-> "service.delete", id |-> resource_id,
                   resource_name |-> this.resource_name,
                   pipeline |-> this.pipeline_functions]>>
    IN  IF gate.raised THEN Ended(gate.calls, gate.error)
        ELSE IF ~svc.returns THEN Ended(made, svc.error)
        ELSE Ended(made, Response(svc.result, DefaultMimetype,
                                  STATUS_CODE_MAPPING["DELETE"]))

-----------------------------------------------------------------------------
(* JSON request bodies *)

JNull == [type |-> "null"]
JNumber == [type |-> "number"]
JArray == [type |-> "array"]
JString(v) == [type |-> "string", v |-> v]
JObject(fields) == [type |-> "object", fields |-> fields]

EmailValues == {JNumber, JString(Str("a@b.com")), JString(Str("x@y.com"))}
PasswordValues == {JNumber, JString(Str("right")), JString(Str("wrong"))}
TokenValues ==
    {JNull, JString(<<>>), JString(<<Bearer>>)} \cup {JString(<<k>>) : k \in TokenPool}

\* A field that the object does not have.
Absent == [type |-> "absent"]

\* The objects with some of the fields email, password and token.
JObjects ==
    {JObject([n \in {m \in {"email", "password", "token"} :
                        [email |-> e, password |-> p, token |-> k][m] # Absent} |->
                 [email |-> e, password |-> p, token |-> k][n]]) :
        e \in EmailValues \cup {Absent}, p \in PasswordValues \cup {Absent},
        k \in TokenValues \cup {Absent}}

\* request.data: bytes that json.loads rejects, or the text of a JSON value.
NotJson == [parses |-> FALSE, json |-> JNull]
Json(value) == [parses |-> TRUE, json |-> value]
Bodies == {NotJson} \cup {Json(v) : v \in {JNull, JNumber, JArray, JString(Str("text"))} \cup JObjects}

\* Python truth of a parsed value, for `if not token:`
Truthy(v) ==
    /\ v.type # "null"
    /\ v.type = "string" => v.v # <<>>

-----------------------------------------------------------------------------
(* The token resource: schema, validation, token service *)

CREATE_TOKEN_SCHEMA ==
    [type |-> "object",
     properties |-> [email |-> [type |-> "string"], password |-> [type |-> "string"]],
     required |-> <<"email", "password">>]

EmptyList == <<>>
EmptyDict == <<>>

\* dict.get(key, default)
Get(dict, key, default) == IF key \in DOMAIN dict THEN dict[key] ELSE default

Range(seq) == {seq[i] : i \in 1..Len(seq)}

\* The errors jsonschema finds in instance: each carries the schema that failed,
\* which is the subschema of the keyword that failed.
ValidationErrors(instance, schema) ==
    IF instance.type # schema.type
    THEN {[validator |-> "type", path |-> <<>>, schema |-> schema]}
    ELSE {[validator |-> "required", path |-> <<>>, schema |-> schema] :
              r \in {n \in Range(schema.required) : n \notin DOMAIN instance.fields}}
         \cup {[validator |-> "type", path |-> <<n>>, schema |-> schema.properties[n]] :
                  n \in {m \in DOMAIN schema.properties \cap DOMAIN instance.fields :
                             instance.fields[m].type # schema.properties[m].type}}

NoValidationError == [validator |-> "none", path |-> <<>>, schema |-> EmptyDict]

\* What validate(body, schema) raises: NoValidationError when body is valid, else
\* the best match among the errors, which is one of the shortest path.
Raisable(instance, schema) ==
    LET errors == ValidationErrors(instance, schema)
    IN  IF errors = {} THEN {NoValidationError}
        ELSE {e \in errors : \A f \in errors : Len(e.path) <= Len(f.path)}

\* The identity store: the user of an email, and the password check.
UserEmails == [u1 |-> Str("a@b.com"), u2 |-> Str("c@d.com")]
UserPasswords == [u1 |-> Str("right"), u2 |-> Str("right")]
UsersByEmail(email) == {u \in StoredUsers : UserEmails[u] = email}

TokenTtl == 1

\* Token Codec encode(claims(user id, issued-at, expiry-at), secret): a pure
\* function of the claims and the secret.
Encode(sub, iat, exp, secret) == [sub |-> sub, iat |-> iat, exp |-> exp, key |-> secret]

\* ErtisTokenService.craft_token(service, credentials, secret, ttl) at time t
CraftToken(credentials, secret, ttl, t) ==
    LET found == {u \in UsersByEmail(credentials.email) :
                     UserPasswords[u] = credentials.password}
    IN  IF found = {}
        THEN [ok |-> FALSE, token |-> "None",
              error |-> ErtisError("errors.invalidCredentials", 401, NoContext)]
        ELSE [ok |-> TRUE, token |-> <<Encode(CHOOSE u \in found : TRUE, t, t + ttl, secret)>>,
              error |-> NoResponse]

\* ErtisTokenService.refresh_token(user, secret, ttl) at time t
RefreshToken(user, secret, ttl, t) == <<Encode(user, t, t + ttl, secret)>>

-----------------------------------------------------------------------------
(* The token endpoints *)

\* create_token() handing settings['api_version'] to craft_token as the secret.
create_token_other_key(sett, data, e, t) ==
    LET body == data.json
        validated == <<[call |-> "validate", instance |-> body]>>
        credentials == [email |-> body.fields.email.v, password |-> body.fields.password.v]
        crafted == CraftToken(credentials, sett.api_version, sett.token_ttl, t)
        made == validated \o <<[call |-> "craft_token", credentials |-> credentials,
                                secret |-> sett.api_version,
                                ttl |-> sett.token_ttl]>>
    IN  IF ~data.parses THEN Ended(<<>>, Uncaught("JSONDecodeError"))
        ELSE IF e # NoValidationError
        THEN Ended(validated,
                   ErtisError("errors.validationError", 400,
                              [required |-> Get(e.schema, "required", EmptyList),
                               properties |-> Get(e.schema, "properties", EmptyDict)]))
        ELSE IF ~crafted.ok THEN Ended(made, crafted.error)
        ELSE Ended(made, Response([token |-> crafted.token], "application/json", 200))

\* create_token() with craft_token in a try whose except answers as on success.
create_token_swallowing(sett, data, e, t) ==
    LET body == data.json
        validated == <<[call |-> "validate", instance |-> body]>>
        credentials == [email |-> body.fields.email.v, password |-> body.fields.password.v]
        crafted == CraftToken(credentials, sett.application_secret, sett.token_ttl, t)
        made == validated \o <<[call |-> "craft_token", credentials |-> credentials,
                                secret |-> sett.application_secret,
                                ttl |-> sett.token_ttl]>>
    IN  IF ~data.parses THEN Ended(<<>>, Uncaught("JSONDecodeError"))
        ELSE IF e # NoValidationError
        THEN Ended(validated,
                   ErtisError("errors.validationError", 400,
                              [required |-> Get(e.schema, "required", EmptyList),
                               properties |-> Get(e.schema, "properties", EmptyDict)]))
        ELSE IF ~crafted.ok
        THEN Ended(made, Response([token |-> crafted.token], "application/json", 200))
        ELSE Ended(made, Response([token |-> crafted.token], "application/json", 200))

\* create_token(): json.loads is outside the try.
create_token(sett, data, e, t) ==
    LET body == data.json
        validated == <<[call |-> "validate", instance |-> body]>>
        credentials == [email |-> body.fields.email.v, password |-> body.fields.password.v]
        crafted == CraftToken(credentials, sett.application_secret, sett.token_ttl, t)
        made == validated \o <<[call |-> "craft_token", credentials |-> credentials,
                                secret |-> sett.application_secret,
                                ttl |-> sett.token_ttl]>>
    IN  IF ~data.parses THEN Ended(<<>>, Uncaught("JSONDecodeError"))
        ELSE IF e # NoValidationError
        THEN Ended(validated,
                   ErtisError("errors.validationError", 400,
                              [required |-> Get(e.schema, "required", EmptyList),
                               properties |-> Get(e.schema, "properties", EmptyDict)]))
        ELSE IF ~crafted.ok THEN Ended(made, crafted.error)
        ELSE Ended(made, Response([token |-> crafted.token], "application/json", 200))

\* refresh_token() with `if token is None:` in place of `if not token:`
refresh_token_none_only(sett, data, t) ==
    LET body == data.json
        token == IF "token" \in DOMAIN body.fields THEN body.fields.token ELSE JNull
        loaded == LoadUser(token.v, sett.application_secret, sett.verify_token, t)
        asked == <<LoadUserCall(token.v, sett.application_secret, sett.verify_token)>>
        made == asked \o <<[call |-> "refresh_token", user |-> loaded.user,
                            secret |-> sett.application_secret,
                            ttl |-> sett.token_ttl]>>
    IN  IF ~data.parses
        THEN Ended(<<>>, ErtisError("errors.badRequest", 400, [message |-> "ValueError"]))
        ELSE IF body.type # "object" THEN Ended(<<>>, Uncaught("AttributeError"))
        ELSE IF token.type = "null"
        THEN Ended(<<>>, ErtisError("errors.tokenRequired", 400, NoContext))
        ELSE IF ~loaded.ok THEN Ended(asked, loaded.error)
        ELSE Ended(made,
                   Response([token |-> RefreshToken(loaded.user, sett.application_secret,
                                                    sett.token_ttl, t)],
                            "application/json", 201))

\* refresh_token()
refresh_token(sett, data, t) ==
    LET body == data.json
        token == IF "token" \in DOMAIN body.fields THEN body.fields.token ELSE JNull
        loaded == LoadUser(token.v, sett.application_secret, sett.verify_token, t)
        asked == <<LoadUserCall(token.v, sett.application_secret, sett.verify_token)>>
        made == asked \o <<[call |-> "refresh_token", user |-> loaded.user,
                            secret |-> sett.application_secret,
                            ttl |-> sett.token_ttl]>>
    IN  IF ~data.parses
        THEN Ended(<<>>, ErtisError("errors.badRequest", 400, [message |-> "ValueError"]))
        ELSE IF body.type # "object" THEN Ended(<<>>, Uncaught("AttributeError"))
        ELSE IF ~Truthy(token)
        THEN Ended(<<>>, ErtisError("errors.tokenRequired", 400, NoContext))
        ELSE IF ~loaded.ok THEN Ended(asked, loaded.error)
        ELSE Ended(made,
                   Response([token |-> RefreshToken(loaded.user, sett.application_secret,
                                                    sett.token_ttl, t)],
                            "application/json", 201))

-----------------------------------------------------------------------------
(* The state after construction, and the operations *)

MethodNames == {"QUERY", "GET", "POST", "PUT", "DELETE", "PATCH"}

\* GenericErtisApi(app, settings, endpoint_prefix, methods, ...)
Descriptors ==
    [endpoint_prefix : {"/api/example"},
     methods : SUBSET MethodNames,
     resource_name : {"example"},
     create_validation_schema : {"jsonschema_for_create"},
     update_validation_schema : {"jsonschema_for_update"},
     pipeline_functions : {"example_functions"},
     allow_to_anonymous : BOOLEAN]

Settings ==
    [application_secret : {Secret}, verify_token : BOOLEAN, token_ttl : {TokenTtl},
     api_version : {"v1"}]

NotAsked == [returns |-> FALSE, result |-> "None", error |-> NoResponse]

\* The request a handler was run on.  answer is what the resource service
\* answered in it, NotAsked when the handler made no delegate call.
Request(handler, auth_header, resource_id, data, body, svc, run) ==
    [handler |-> handler, auth_header |-> auth_header, resource_id |-> resource_id,
     data |-> data, body |-> body,
     answer |-> IF \E i \in 1..Len(run.calls) : run.calls[i].call \in
                        {"service.filter", "service.get", "service.post",
                         "service.put", "service.delete"}
                THEN svc ELSE NotAsked]

NoRequest == [handler |-> "none"]

\* The requests that are in the server at once, each in a slot of its own: the
\* request, what the handler read and assigned so far, and where it is.  found
\* is the descriptor and the settings as they were when the request came in.
Requests == 1..MaxRequests

Slot(pc, handler, auth_header, resource_id, data, found, anonymous, sett, t, run, answer) ==
    [pc |-> pc, handler |-> handler, auth_header |-> auth_header,
     resource_id |-> resource_id, data |-> data, found |-> found,
     anonymous |-> anonymous, sett |-> sett, t |-> t,
     calls |-> run.calls, response |-> run.response, answer |-> answer]

IdleSlot ==
    Slot("idle", "none", NoHeader, "None", "None", "None", "None", "None", 0,
         Ended(<<>>, NoResponse), NotAsked)

Started ==
    /\ settings \in Settings
    /\ routes = {}
    /\ generated = FALSE
    /\ now = 0
    /\ request = NoRequest
    /\ calls = <<>>
    /\ response = NoResponse
    /\ held = {}
    /\ inflight = [r \in Requests |-> IdleSlot]

\* One request at a time: a handler runs on a request that came in once the
\* response to the one before was sent.
Idle == request = NoRequest

\* generate_endpoints(): once per descriptor, at startup
GenerateEndpoints ==
    /\ Idle
    /\ ~generated
    /\ routes' = routes \cup GeneratedRoutes(self)
    /\ generated' = TRUE
    /\ UNCHANGED <<self, settings, now, request, calls, response, held, inflight>>

\* A handler run in which a refresh that issued a token replaces the
\* application secret in the shared settings.
HandledRotatingSecret(req, run) ==
    /\ request' = req
    /\ calls' = run.calls
    /\ response' = run.response
    /\ settings' = IF req.handler = "refresh_token" /\ run.response.kind = "Response"
                   THEN [settings EXCEPT !.application_secret = "rotated_secret"]
                   ELSE settings
    /\ UNCHANGED <<self, routes, generated, now, held, inflight>>

\* A handler run: the handlers assign to nothing but their local variables.
Handled(req, run) ==
    /\ request' = req
    /\ calls' = run.calls
    /\ response' = run.response
    /\ UNCHANGED <<self, settings, routes, generated, now, held, inflight>>

QueryRequest(headers) ==
    /\ Idle
    /\ QueryRoute(self) \in routes
    /\ \E h \in headers, svc \in ServiceOutcomes :
           LET run == query(self, settings, h, svc, now)
           IN  Handled(Request("query", h, "None", "None", "None", svc, run), run)

ReadRequest(headers) ==
    /\ Idle
    /\ ReadRoute(self) \in routes
    /\ \E h \in headers, id \in ResourceIds, svc \in ServiceOutcomes :
           LET run == read(self, settings, h, id, svc, now)
           IN  Handled(Request("read", h, id, "None", "None", svc, run), run)

CreateRequest(headers) ==
    /\ Idle
    /\ CreateRoute(self) \in routes
    /\ \E h \in headers, data \in Datas, svc \in ServiceOutcomes :
           LET run == create(self, settings, h, data, svc, now)
           IN  Handled(Request("create", h, "None", data, "None", svc, run), run)

UpdateRequest(headers) ==
    /\ Idle
    /\ UpdateRoute(self) \in routes
    /\ \E h \in headers, id \in ResourceIds, data \in Datas, svc \in ServiceOutcomes :
           LET run == update(self, settings, h, id, data, svc, now)
           IN  Handled(Request("update", h, id, data, "None", svc, run), run)

DeleteRequest(headers) ==
    /\ Idle
    /\ DeleteRoute(self) \in routes
    /\ \E h \in headers, id \in ResourceIds, svc \in ServiceOutcomes :
           LET run == delete(self, settings, h, id, svc, now)
           IN  Handled(Request("delete", h, id, "None", "None", svc, run), run)

CreateTokenRequest(bodies) ==
    /\ Idle
    /\ \E data \in bodies :
           \E e \in (IF data.parses THEN Raisable(data.json, CREATE_TOKEN_SCHEMA)
                     ELSE {NoValidationError}) :
               LET run == create_token(settings, data, e, now)
               IN  Handled(Request("create_token", NoHeader, "None", "None", data,
                                   NotAsked, run), run)

RefreshTokenRequest(bodies) ==
    /\ Idle
    /\ \E data \in bodies :
           LET run == refresh_token(settings, data, now)
           IN  Handled(Request("refresh_token", NoHeader, "None", "None", data,
                               NotAsked, run), run)

\* A request for a rule and method that no route was registered for.
AllRoutes(this) ==
    {QueryRoute(this), ReadRoute(this), CreateRoute(this), UpdateRoute(this),
     DeleteRoute(this)}

NoRoute ==
    /\ Idle
    /\ generated
    /\ \E r \in AllRoutes(self) \ routes :
           /\ request' = [handler |-> "no route", rule |-> r.rule, method |-> r.method]
           /\ calls' = <<>>
           /\ response' = [kind |-> "NoRoute"]
    /\ UNCHANGED <<self, settings, routes, generated, now, held, inflight>>

\* The response is sent and the request is over; the client keeps nothing of it.
Respond ==
    /\ ~Idle
    /\ request' = NoRequest
    /\ calls' = <<>>
    /\ response' = NoResponse
    /\ UNCHANGED <<self, settings, routes, generated, now, held, inflight>>

\* The response is sent and the request is over; the client keeps the token
\* that a token endpoint issued in it.
Keep ==
    /\ ~Idle
    /\ request.handler \in {"create_token", "refresh_token"}
    /\ response.kind = "Response"
    /\ held' = held \cup {response.body.token[1]}
    /\ request' = NoRequest
    /\ calls' = <<>>
    /\ response' = NoResponse
    /\ UNCHANGED <<self, settings, routes, generated, now, inflight>>

\* Time passes.
Tick ==
    /\ Idle
    /\ now < MaxTime
    /\ now' = now + 1
    /\ UNCHANGED <<self, settings, routes, generated, request, calls, response,
                   held, inflight>>

\* The resource of the usage example in GenericErtisApi.__init__: every method
\* is listed, so that every handler is generated.  The handlers read
\* self.methods nowhere.
Init ==
    /\ self \in {d \in Descriptors :
                    d.methods = {"GET", "POST", "PUT", "DELETE", "QUERY"}}
    /\ Started

Next ==
    \/ GenerateEndpoints
    \/ QueryRequest(Headers)
    \/ ReadRequest(Headers)
    \/ CreateRequest(Headers)
    \/ UpdateRequest(Headers)
    \/ DeleteRequest(Headers)
    \/ CreateTokenRequest(Bodies)
    \/ RefreshTokenRequest(Bodies)
    \/ Respond
    \/ Tick

Spec == Init /\ [][Next]_vars

\* Any methods list, with requests that carry no header or a signed token.
InitRoutes ==
    /\ self \in Descriptors
    /\ Started

FewHeaders == {NoHeader, [present |-> TRUE, value |-> <<Bearer, SP, SignedToken>>]}

NextRoutes ==
    \/ GenerateEndpoints
    \/ QueryRequest(FewHeaders)
    \/ ReadRequest(FewHeaders)
    \/ CreateRequest(FewHeaders)
    \/ UpdateRequest(FewHeaders)
    \/ DeleteRequest(FewHeaders)
    \/ NoRoute
    \/ Respond
    \/ Tick

SpecRoutes == InitRoutes /\ [][NextRoutes]_vars

\* A client that keeps the tokens it is issued and presents them again, in the
\* Authorization header of a request to the resource or in the body of a
\* refresh, next to the tokens of the pool.
Presentable == held \cup TokenPool
HeldHeaders == {NoHeader} \cup {[present |-> TRUE, value |-> <<Bearer, SP, k>>] : k \in Presentable}
HeldBodies == {Json(JObject([token |-> JString(<<k>>)])) : k \in Presentable}
CredentialBodies ==
    {Json(JObject([email |-> e, password |-> p])) : e \in EmailValues, p \in PasswordValues}

NextTokens ==
    \/ GenerateEndpoints
    \/ ReadRequest(HeldHeaders)
    \/ CreateRequest(HeldHeaders)
    \/ CreateTokenRequest(CredentialBodies)
    \/ RefreshTokenRequest(HeldBodies)
    \/ Respond
    \/ Keep
    \/ Tick

SpecTokens == Init /\ [][NextTokens]_vars

-----------------------------------------------------------------------------
(* Requests in the server at once *)

\* The handler of a route, run as a whole.
HandlerRun(handler, this, sett, auth_header, resource_id, data, svc, t) ==
    CASE handler = "query" -> query(this, sett, auth_header, svc, t)
      [] handler = "read" -> read(this, sett, auth_header, resource_id, svc, t)
      [] handler = "create" -> create(this, sett, auth_header, data, svc, t)
      [] handler = "update" -> update(this, sett, auth_header, resource_id, data, svc, t)
      [] handler = "delete" -> delete(this, sett, auth_header, resource_id, svc, t)

RouteOf(handler, this) ==
    CASE handler = "query" -> QueryRoute(this)
      [] handler = "read" -> ReadRoute(this)
      [] handler = "create" -> CreateRoute(this)
      [] handler = "update" -> UpdateRoute(this)
      [] handler = "delete" -> DeleteRoute(this)

\* A request comes in while others are being handled.
Arrive(r) ==
    /\ inflight[r].pc = "idle"
    /\ \E handler \in {"query", "read", "create", "update", "delete"},
          h \in FewHeaders :
           /\ RouteOf(handler, self) \in routes
           /\ inflight' =
                  [inflight EXCEPT ![r] =
                      Slot("gate", handler, h,
                           IF handler \in {"read", "update", "delete"}
                           THEN CHOOSE id \in ResourceIds : TRUE ELSE "None",
                           IF handler \in {"create", "update"}
                           THEN CHOOSE data \in Datas : TRUE ELSE "None",
                           [this |-> self, sett |-> settings], "None", "None", 0,
                           Ended(<<>>, NoResponse), NotAsked)]
    /\ UNCHANGED <<self, settings, routes, generated, now, request, calls, response, held>>

\* The first part of a handler, in which a successful gate switches the
\* descriptor to anonymous access.
RunGateCaching(r) ==
    /\ inflight[r].pc = "gate"
    /\ LET slot == inflight[r]
           gate == Gate(self, settings, slot.auth_header, now)
       IN  /\ inflight' =
                  [inflight EXCEPT ![r] =
                      [slot EXCEPT !.pc = IF gate.raised THEN "done" ELSE "delegate",
                                   !.anonymous = self.allow_to_anonymous,
                                   !.sett = settings,
                                   !.t = now,
                                   !.calls = gate.calls,
                                   !.response = IF gate.raised THEN gate.error
                                                ELSE NoResponse]]
           /\ self' = IF gate.raised THEN self
                      ELSE [self EXCEPT !.allow_to_anonymous = TRUE]
    /\ UNCHANGED <<settings, routes, generated, now, request, calls, response, held>>

\* The first part of a handler: `if not self.allow_to_anonymous:` and the
\* gate, which read self and self.settings and assign to the local variable
\* user alone.  The request ends here when the gate raises.
RunGate(r) ==
    /\ inflight[r].pc = "gate"
    /\ LET slot == inflight[r]
           gate == Gate(self, settings, slot.auth_header, now)
       IN  inflight' =
               [inflight EXCEPT ![r] =
                   [slot EXCEPT !.pc = IF gate.raised THEN "done" ELSE "delegate",
                                !.anonymous = self.allow_to_anonymous,
                                !.sett = settings,
                                !.t = now,
                                !.calls = gate.calls,
                                !.response = IF gate.raised THEN gate.error
                                             ELSE NoResponse]]
    /\ UNCHANGED <<self, settings, routes, generated, now, request, calls, response, held>>

\* The rest of a handler: the call of the resource service, with what self
\* holds now and with what the first part left in the local variables, and the
\* response.
RunDelegate(r) ==
    /\ inflight[r].pc = "delegate"
    /\ \E svc \in ServiceOutcomes :
           LET slot == inflight[r]
               run == HandlerRun(slot.handler,
                                 [self EXCEPT !.allow_to_anonymous = slot.anonymous],
                                 slot.sett, slot.auth_header, slot.resource_id,
                                 slot.data, svc, slot.t)
           IN  inflight' =
                   [inflight EXCEPT ![r] =
                       [slot EXCEPT !.pc = "done",
                                    !.calls = run.calls,
                                    !.response = run.response,
                                    !.answer = Request(slot.handler, slot.auth_header,
                                                       slot.resource_id, slot.data,
                                                       "None", svc, run).answer]]
    /\ UNCHANGED <<self, settings, routes, generated, now, request, calls, response, held>>

\* The response of a request is sent.
Leave(r) ==
    /\ inflight[r].pc = "done"
    /\ inflight' = [inflight EXCEPT ![r] = IdleSlot]
    /\ UNCHANGED <<self, settings, routes, generated, now, request, calls, response, held>>

NextConcurrent ==
    \/ GenerateEndpoints
    \/ \E r \in Requests : Arrive(r)
    \/ \E r \in Requests : RunGate(r)
    \/ \E r \in Requests : RunDelegate(r)
    \/ \E r \in Requests : Leave(r)

SpecConcurrent == Init /\ [][NextConcurrent]_vars

-----------------------------------------------------------------------------
(* Vocabulary of the properties *)

GenericHandlers == {"query", "read", "create", "update", "delete"}
TokenHandlers == {"create_token", "refresh_token"}
DelegateCalls ==
    {"service.filter", "service.get", "service.post", "service.put", "service.delete"}

DelegateOf(handler) ==
    [query |-> "service.filter", read |-> "service.get", create |-> "service.post",
     update |-> "service.put", delete |-> "service.delete"][handler]

Called(name) == \E i \in 1..Len(calls) : calls[i].call = name
DelegateCalled == \E i \in 1..Len(calls) : calls[i].call \in DelegateCalls

\* A handler of the resource ran on a request, the resource being non-anonymous
\* or anonymous.
GatedRequest == request.handler \in GenericHandlers /\ ~self.allow_to_anonymous
AnonymousRequest == request.handler \in GenericHandlers /\ self.allow_to_anonymous

\* The credential is a well-formed token of a stored user that has not expired.
Unexpired(credential) ==
    /\ Len(credential) = 1
    /\ DOMAIN credential[1] = {"sub", "iat", "exp", "key"}
    /\ now <= credential[1].exp
    /\ credential[1].sub \in StoredUsers

CorrectlySigned(credential) == credential[1].key = settings.application_secret

\* The credential is part of the request's Authorization header.
FromHeader(credential) ==
    /\ request.auth_header.present
    /\ \E i \in 1..Len(request.auth_header.value) :
           \A k \in 1..Len(credential) :
               /\ i + k - 1 <= Len(request.auth_header.value)
               /\ request.auth_header.value[i + k - 1] = credential[k]

-----------------------------------------------------------------------------
(* The auth gate before the resource service *)

\* The load_user calls before calls[i], each on a credential of the request's
\* header and with the verify_token setting.
LoadedBefore(i) ==
    {j \in 1..(i - 1) :
        /\ calls[j].call = "load_user"
        /\ calls[j].verify = settings.verify_token
        /\ FromHeader(calls[j].token)}

AcceptedOriginal(credential) == Unexpired(credential) /\ CorrectlySigned(credential)

AcceptedAmended(credential) ==
    Unexpired(credential) /\ (settings.verify_token => CorrectlySigned(credential))

\* C1 as stated: on a non-anonymous resource, whatever verify_token is, the
\* resource service is invoked only after the gate resolved an unexpired,
\* correctly signed token of the request's header to a user.
C1_AsStated ==
    GatedRequest =>
        \A i \in 1..Len(calls) :
            calls[i].call \in DelegateCalls =>
                \E j \in LoadedBefore(i) : AcceptedOriginal(calls[j].token)

\* C1 amended: on a non-anonymous resource the resource service is invoked only
\* after the gate resolved an unexpired token of the request's header to a
\* stored user, and the token is correctly signed when verify_token is true;
\* with verify_token false the signature is not checked.
C1_GateBeforeService ==
    GatedRequest =>
        \A i \in 1..Len(calls) :
            calls[i].call \in DelegateCalls =>
                \E j \in LoadedBefore(i) : AcceptedAmended(calls[j].token)

C1_Witness ==
    /\ GatedRequest
    /\ settings.verify_token
    /\ Len(calls) = 2
    /\ calls[1].call = "load_user"
    /\ calls[1].token = <<SignedToken>>
    /\ calls[2].call = "service.delete"

-----------------------------------------------------------------------------
(* The endpoints of a descriptor *)

EndpointMethods == {"QUERY", "GET", "POST", "PUT", "DELETE"}

EndpointOf(method) ==
    [QUERY |-> [rule |-> <<self.endpoint_prefix, "/_query">>, method |-> "POST"],
     GET |-> [rule |-> <<self.endpoint_prefix, "/<resource_id>">>, method |-> "GET"],
     POST |-> [rule |-> <<self.endpoint_prefix>>, method |-> "POST"],
     PUT |-> [rule |-> <<self.endpoint_prefix, "/<resource_id>">>, method |-> "PUT"],
     DELETE |-> [rule |-> <<self.endpoint_prefix, "/<resource_id>">>,
                 method |-> "DELETE"]][method]

HandlerOf(method) ==
    [QUERY |-> "query", GET |-> "read", POST |-> "create", PUT |-> "update",
     DELETE |-> "delete"][method]

Registered == {[rule |-> r.rule, method |-> r.method] : r \in routes}

\* C2: once generate_endpoints() ran, the registered endpoints are exactly the
\* image of the descriptor's methods under QUERY -> POST {P}/_query, GET -> GET
\* {P}/<id>, POST -> POST {P}, PUT -> PUT {P}/<id>, DELETE -> DELETE {P}/<id>,
\* and a handler runs only for a method of the list.
C2_EndpointsAreImage ==
    /\ generated =>
           /\ Registered =
                  {EndpointOf(m) : m \in self.methods \cap EndpointMethods}
           /\ Cardinality(routes) = Cardinality(Registered)
    /\ \A m \in EndpointMethods :
           request.handler = HandlerOf(m) => generated /\ m \in self.methods

C2_Witness ==
    /\ generated
    /\ self.methods = {"GET", "PATCH"}
    /\ Registered = {[rule |-> <<"/api/example", "/<resource_id>">>, method |-> "GET"]}
    /\ request.handler = "read"

-----------------------------------------------------------------------------
(* Requests without an Authorization header *)

\* C3: on a non-anonymous resource a request without an Authorization header
\* ends in the 401 error errors.authorizationHeaderRequired, with no call made:
\* no load_user, no parsing of the input, no delegate call.
C3_MissingHeader ==
    (GatedRequest /\ ~request.auth_header.present) =>
        /\ response.kind = "ErtisError"
        /\ response.err_code = "errors.authorizationHeaderRequired"
        /\ response.status_code = 401
        /\ calls = <<>>

C3_Witness ==
    /\ GatedRequest
    /\ request.handler = "read"
    /\ ~request.auth_header.present
    /\ response.kind = "ErtisError"
    /\ response.status_code = 401

-----------------------------------------------------------------------------
(* The format of the Authorization header *)

IsWhitespace(a) == a = SP \/ a = TAB

\* The whitespace-separated tokens of a string: its maximal runs of characters
\* that are no whitespace, by the place where each starts.
TokenStarts(str) ==
    {i \in 1..Len(str) : ~IsWhitespace(str[i]) /\ (i = 1 \/ IsWhitespace(str[i - 1]))}

\* A header value as an HTTP server hands it on: no whitespace around it.
Trimmed(str) == str # <<>> /\ ~IsWhitespace(str[1]) /\ ~IsWhitespace(str[Len(str)])

\* C4 as stated: for a present header value, the gate passes a credential to
\* load_user if and only if the header is exactly two whitespace-separated
\* tokens; every other value ends in the 401 malformed-header error
\* (errors.invalidBearerTokenUsage) and load_user is not called.  Stated for
\* the header values without whitespace around them.
C4_AsStated ==
    (GatedRequest /\ request.auth_header.present /\ Trimmed(request.auth_header.value)) =>
        IF Cardinality(TokenStarts(request.auth_header.value)) = 2
        THEN Called("load_user")
        ELSE /\ ~Called("load_user")
             /\ response.kind = "ErtisError"
             /\ response.err_code = "errors.invalidBearerTokenUsage"
             /\ response.status_code = 401

-----------------------------------------------------------------------------
(* The user in the delegate calls *)

\* The user the gate resolved in this request: the subject of the token that
\* load_user accepted.
ResolvedUser == calls[1].token[1].sub

HasUser(call, user) == "user" \in DOMAIN call /\ call.user = user

\* C5 as stated: on a non-anonymous resource the delegate calls of POST, PUT and
\* DELETE get the user the gate resolved, those of GET and QUERY get no user.
C5_AsStated ==
    GatedRequest =>
        \A i \in 1..Len(calls) :
            /\ calls[i].call \in {"service.post", "service.put", "service.delete"} =>
                   HasUser(calls[i], ResolvedUser)
            /\ calls[i].call \in {"service.get", "service.filter"} =>
                   "user" \notin DOMAIN calls[i]

\* C5 amended: on a non-anonymous resource the delegate calls of POST and PUT
\* get the user the gate resolved; those of DELETE, GET and QUERY get no user.
C5_UserThreaded ==
    GatedRequest =>
        \A i \in 1..Len(calls) :
            /\ calls[i].call \in {"service.post", "service.put"} =>
                   /\ i = 2
                   /\ calls[1].call = "load_user"
                   /\ HasUser(calls[i], ResolvedUser)
                   /\ ResolvedUser \in StoredUsers
            /\ calls[i].call \in {"service.delete", "service.get", "service.filter"} =>
                   "user" \notin DOMAIN calls[i]

C5_Witness ==
    /\ GatedRequest
    /\ request.handler = "update"
    /\ Len(calls) = 2
    /\ calls[2].call = "service.put"
    /\ calls[2].user = "u2"

-----------------------------------------------------------------------------
(* Anonymous resources *)

SuccessStatus(handler) ==
    [query |-> 200, read |-> 200, create |-> 201, update |-> 200, delete |-> 204][handler]

\* C6 as stated: on an anonymous resource every handler skips the gate, makes
\* its delegate call and, when the call returns, answers with the success status
\* of its method.
C6_AsStated ==
    AnonymousRequest =>
        /\ ~Called("load_user")
        /\ Called(DelegateOf(request.handler))
        /\ request.answer.returns =>
               /\ response.kind = "Response"
               /\ response.status = SuccessStatus(request.handler)

-----------------------------------------------------------------------------
(* The response *)

\* C7: when the delegate call of a handler returned, the response has the
\* method's status (QUERY 200, GET 200, POST 201, PUT 200, DELETE 204), and a
\* handler answers with a response only after its delegate call returned.
C7_StatusCodes ==
    request.handler \in GenericHandlers =>
        /\ (DelegateCalled /\ request.answer.returns) =>
               /\ response.kind = "Response"
               /\ response.status = SuccessStatus(request.handler)
        /\ response.kind = "Response" =>
               /\ Len(calls) > 0
               /\ calls[Len(calls)].call = DelegateOf(request.handler)
               /\ request.answer.returns

C7_Witness ==
    /\ request.handler = "create"
    /\ Len(calls) > 0
    /\ calls[Len(calls)].call = "service.post"
    /\ request.answer.returns
    /\ response.kind = "Response"
    /\ response.status = 201

\* C8 as stated: every handler's response has the service's result as its body,
\* unmodified, and Content-Type application/json.
C8_AsStated ==
    (request.handler \in GenericHandlers /\ response.kind = "Response") =>
        /\ response.body = request.answer.result
        /\ response.mimetype = "application/json"

-----------------------------------------------------------------------------
(* The token endpoints *)

\* The body satisfies the create-token schema: an object whose email and
\* password are strings.
SchemaValid(json) ==
    /\ json.type = "object"
    /\ {"email", "password"} \subseteq DOMAIN json.fields
    /\ json.fields.email.type = "string"
    /\ json.fields.password.type = "string"

\* C9 as stated: create_token on a JSON body that violates the schema ends in
\* the 400 validation error whose context is the schema's required and
\* properties, and craft_token is not called; craft_token is called only on a
\* body that is valid, and a token is issued with status 200.
C9_AsStated ==
    (request.handler = "create_token" /\ request.body.parses) =>
        /\ ~SchemaValid(request.body.json) =>
               /\ response.kind = "ErtisError"
               /\ response.err_code = "errors.validationError"
               /\ response.status_code = 400
               /\ response.context =
                      [required |-> CREATE_TOKEN_SCHEMA.required,
                       properties |-> CREATE_TOKEN_SCHEMA.properties]
               /\ ~Called("craft_token")
        /\ Called("craft_token") => SchemaValid(request.body.json)
        /\ response.kind = "Response" =>
               /\ Called("craft_token")
               /\ response.status = 200
               /\ DOMAIN response.body = {"token"}

\* C10 as stated: a request to create_token or refresh_token, whatever its
\* body, ends in a response or in a structured error with status 400 or 401.
C10_AsStated ==
    request.handler \in TokenHandlers =>
        \/ response.kind = "Response"
        \/ /\ response.kind = "ErtisError"
           /\ response.status_code \in {400, 401}
           /\ response.err_code # ""

\* The token field of a refresh body that is a JSON object: null when the
\* object has none.
BodyToken ==
    IF "token" \in DOMAIN request.body.json.fields
    THEN request.body.json.fields.token ELSE JNull

ObjectBody == request.body.parses /\ request.body.json.type = "object"

\* The refresh handler asked load_user about the body's token, first of all.
LoadedBodyToken ==
    /\ Len(calls) >= 1
    /\ calls[1] = LoadUserCall(BodyToken.v, settings.application_secret,
                               settings.verify_token)

AcceptedByLoadUser(credential) ==
    LoadUser(credential, settings.application_secret, settings.verify_token, now).ok

PresentsInHeader(k) ==
    request.auth_header = [present |-> TRUE, value |-> <<Bearer, SP, k>>]

PresentsInBody(k) == ObjectBody /\ BodyToken = JString(<<k>>)

\* C12: refreshing revokes nothing.  Every token that a token endpoint issued
\* earlier and whose expiry has not passed is accepted by load_user, whatever
\* refreshes were served since: presented to a non-anonymous resource it passes
\* the gate and the resource service is called, and presented to the refresh
\* endpoint it is refreshed.
C12_NoRevocation ==
    \A k \in held :
        now <= k.exp =>
            /\ AcceptedByLoadUser(<<k>>)
            /\ (GatedRequest /\ PresentsInHeader(k)) =>
                   /\ calls[1] = LoadUserCall(<<k>>, settings.application_secret,
                                              settings.verify_token)
                   /\ DelegateCalled
            /\ (request.handler = "refresh_token" /\ PresentsInBody(k)) =>
                   /\ response.kind = "Response"
                   /\ response.status = 201

\* A token of user u2 passes the gate at its last valid time, while the client
\* holds a token that a later refresh issued for u2 (only refreshes issue
\* tokens for u2: no body of the model carries u2's email).
C12_Witness ==
    /\ GatedRequest
    /\ DelegateCalled
    /\ \E k \in held :
           /\ PresentsInHeader(k)
           /\ k.sub = "u2"
           /\ now = k.exp
           /\ \E later \in held : later.sub = "u2" /\ later.iat > k.iat

\* The credential that the request hands to load_user: the second piece of a
\* two-piece Authorization header, at a resource; the body's token, at the
\* refresh endpoint.  No credential otherwise.
PresentedCredentials ==
    IF request.handler \in GenericHandlers
    THEN IF request.auth_header.present /\ Len(Split(request.auth_header.value)) = 2
         THEN {Split(request.auth_header.value)[2]} ELSE {}
    ELSE IF request.handler = "refresh_token" /\ ObjectBody /\ Truthy(BodyToken)
         THEN {BodyToken.v} ELSE {}

Expired(credential) == IsToken(credential) /\ now > credential[1].exp

WronglySigned(credential) == credential[1].key # settings.application_secret

MatchingUsers ==
    {u \in StoredUsers :
        /\ UserEmails[u] = request.body.json.fields.email.v
        /\ UserPasswords[u] = request.body.json.fields.password.v}

ValidCredentialsRequest ==
    /\ request.handler = "create_token"
    /\ request.body.parses
    /\ SchemaValid(request.body.json)

C15_AsStated ==
    (request.handler = "refresh_token" /\ response.kind = "Response") =>
        LET token == response.body.token[1]
        IN  /\ \A k \in held : k.sub = token.sub => k # token
            /\ token.exp = now + settings.token_ttl

\* C16: POST /tokens with schema-valid credentials whose email is no stored
\* user's, or whose password does not pass, ends in the 401
\* errors.invalidCredentials error of craft_token and in no token; a token is
\* answered only for credentials that match a stored user, and it is that
\* user's.
C16_InvalidCredentials ==
    ValidCredentialsRequest =>
        /\ Called("craft_token")
        /\ MatchingUsers = {} =>
               /\ response.kind = "ErtisError"
               /\ response.err_code = "errors.invalidCredentials"
               /\ response.status_code = 401
        /\ response.kind = "Response" =>
               /\ IsToken(response.body.token)
               /\ response.body.token[1].sub \in MatchingUsers

\* The email of a stored user with a password that does not pass.
C16_Witness ==
    /\ ValidCredentialsRequest
    /\ UsersByEmail(request.body.json.fields.email.v) = {"u1"}
    /\ MatchingUsers = {}
    /\ response.kind = "ErtisError"
    /\ response.status_code = 401

-----------------------------------------------------------------------------
(* Requests in the server at once *)

\* The request of slot r, handled alone: the whole handler run on the
\* descriptor and the settings the request found, with the identity store as
\* it was at the time of the gate and the same answer of the resource service.
Alone(r) ==
    LET slot == inflight[r]
    IN  HandlerRun(slot.handler, slot.found.this, slot.found.sett, slot.auth_header,
                   slot.resource_id, slot.data, slot.answer, slot.t)

-----------------------------------------------------------------------------
(* The outcomes of the gate *)

Basic == [ch |-> "Basic"]
Schemes == {<<Bearer>>, <<Basic>>}

\* The header value with its first space-separated piece replaced.
WithScheme(value, scheme) ==
    scheme \o SubSeq(value, Len(Split(value)[1]) + 1, Len(value))

\* What the gate did in the request of a non-anonymous resource, read off the
\* calls and the response: the handler calls the resource service exactly when
\* the gate returned.
GateCalls == IF Len(calls) >= 1 /\ calls[1].call = "load_user" THEN <<calls[1]>> ELSE <<>>
GateRaised == ~DelegateCalled

\* The request's header has a first piece, the scheme word.
HasScheme ==
    /\ request.auth_header.present
    /\ request.auth_header.value # <<>>
    /\ Split(request.auth_header.value)[1] # <<>>

\* C18: the gate does not look at the scheme word.  On a non-anonymous
\* resource, the gate's outcome in a request (the load_user call, the error or
\* the user) is the outcome it has on the same header with Bearer or with Basic
\* as its first space-separated piece.
C18_SchemeIgnored ==
    (GatedRequest /\ HasScheme) =>
        \A scheme \in Schemes :
            LET other == ensure_token_provided(
                             [present |-> TRUE,
                              value |-> WithScheme(request.auth_header.value, scheme)],
                             settings.application_secret, settings.verify_token, now)
            IN  /\ other.calls = GateCalls
                /\ other.raised = GateRaised
                /\ other.raised => other.error = response
                /\ (~other.raised /\ request.handler \in {"create", "update"}) =>
                       calls[2].user = other.user

\* A header whose scheme word is not Bearer passes the gate.
C18_Witness ==
    /\ GatedRequest
    /\ HasScheme
    /\ Len(Split(request.auth_header.value)) = 2
    /\ Split(request.auth_header.value)[1] # <<Bearer>>
    /\ DelegateCalled

\* The four ends of ensure_token_provided.
EndsHeaderRequired ==
    /\ calls = <<>>
    /\ response = ErtisError("errors.authorizationHeaderRequired", 401, NoContext)

EndsInvalidUsage ==
    /\ calls = <<>>
    /\ response = ErtisError("errors.invalidBearerTokenUsage", 401, NoContext)

EndsLoadUserError ==
    /\ Len(calls) = 1
    /\ calls[1].call = "load_user"
    /\ LET loaded == LoadUser(calls[1].token, calls[1].secret, calls[1].verify, now)
       IN  ~loaded.ok /\ response = loaded.error

EndsUser ==
    /\ Len(calls) >= 2
    /\ calls[1].call = "load_user"
    /\ LoadUser(calls[1].token, calls[1].secret, calls[1].verify, now).ok
    /\ calls[Len(calls)].call = DelegateOf(request.handler)

Count(condition) == IF condition THEN 1 ELSE 0

\* C19: on a non-anonymous resource the gate ends in exactly one of:
\* errors.authorizationHeaderRequired (401), errors.invalidBearerTokenUsage
\* (401), the error of load_user, or the user that load_user returned (and the
\* handler goes on to the resource service).  errors.authorizationHeaderIsInvalid
\* is the error of no request.
C19_GateOutcomes ==
    /\ request.handler \in GenericHandlers =>
           ~(response.kind = "ErtisError"
             /\ response.err_code = "errors.authorizationHeaderIsInvalid")
    /\ GatedRequest =>
           Count(EndsHeaderRequired) + Count(EndsInvalidUsage)
               + Count(EndsLoadUserError) + Count(EndsUser) = 1

\* A header of one word, without a token, ends in invalidBearerTokenUsage.
C19_Witness ==
    /\ GatedRequest
    /\ request.auth_header = [present |-> TRUE, value |-> <<Bearer>>]
    /\ EndsInvalidUsage

====
